---------------------------- MODULE Spec2Model ----------------------------
(***************************************************************************)
(* The visual-relation notebook                                            *)
(*   src/visual_relation/visual_relation_full_validation_analysis_        *)
(*   ValTestFlip.ipynb                                                     *)
(* as a state machine.  One action per notebook cell that changes state;   *)
(* the two long cells (validation sweep, test phase) are one action per    *)
(* loop iteration, since the code is single-threaded and every call runs   *)
(* to completion.  An exception in a labeling cell stops the notebook      *)
(* ("Restart and Run All" stops at the first failing cell): pc = "error"   *)
(* is terminal.  The sweep cell and the test cell start with %%time, which *)
(* shows the traceback of an exception of its body and returns: the cell   *)
(* ends there and Run All goes on with the next cell.                      *)
(*                                                                         *)
(* Numbers.  The float hyperparameters (sig, thresh, lr) are only stored   *)
(* and passed on, never computed with: they are written in thousandths     *)
(* (0.01 is 10), and the integer placeholder -1 stays -1.  A score is an   *)
(* accuracy k/n over the n rows of the scored matrix; it is written as its *)
(* numerator k, which orders like k/n, and -1 is below every score.        *)
(***************************************************************************)
EXTENDS Integers, Sequences, FiniteSets

VARIABLES
    pc, err,                       \* next cell / loop to run; the last exception raised ("" if none)
    df_train, df_valid, df_test,   \* the three data frames (sequences of rows)
    L_train, L_valid, L_test,      \* label matrices (sequences of vote rows); <<>> until built
    Y_valid, Y_test, L_dev, Y_dev, \* gold vectors and the dev aliases
    it,                            \* positions of the four nested for-loops / of the test loop
    deps_name, param, n_eps, lr,   \* the loop variables (notebook globals)
    deps, label_model, f1,         \* edges in use, the current model instance, the last dev score
    f1_based_store, ct,
    f1_based_test_store, f1_test,
    n_models, n_fits, n_estimates, \* history: instances created, fit calls, overall_deps_fn calls in the sweep
    best_model                     \* history: per policy, the instance whose score is in f1_based_store

vars == << pc, err, df_train, df_valid, df_test, L_train, L_valid, L_test,
           Y_valid, Y_test, L_dev, Y_dev, it, deps_name, param, n_eps, lr,
           deps, label_model, f1, f1_based_store, ct, f1_based_test_store,
           f1_test, n_models, n_fits, n_estimates, best_model >>

---------------------------------------------------------------------------
(* Bounds of the model *)

\* how many policies of the source's deps_names are swept (its last NPolicies)
NPolicies == 2
\* how many values of each deps_params list, of epochs_list and of lr_list are swept
NParams == 2
NEpochs == 2
NLr == 2
\* bounding-box coordinates of the labeling-function rows: 0..MaxCoord and the two far ones
MaxCoord == 2

---------------------------------------------------------------------------
(* Class indices and bounding-box layout *)

RIDE == 0
CARRY == 1
\* the source's OTHER (a reserved word here)
Other == 2
ABSTAIN == -1

YMIN == 0
YMAX == 1
XMIN == 2
XMAX == 3

\* the result that stands for lf_area raising ZeroDivisionError (int / int, zero divisor)
ZeroDivisionError == -2

\* the distance bound of lf_dist
DistLimit == 1000

\* cardinality=3 of every Informed_LabelModel, and k=3 of the estimators
cardinality == 3

\* Python's 0-based subscript on a list
At(s, i) == s[i + 1]

---------------------------------------------------------------------------
(* Labeling functions: one example row -> a vote *)

lf_ride_object(x) ==
    IF x.subject_category = "person"
       /\ x.object_category \in {"bike", "snowboard", "motorcycle", "horse",
                                 "bus", "truck", "elephant"}
    THEN RIDE ELSE ABSTAIN

lf_carry_object(x) ==
    IF x.subject_category = "person"
       /\ x.object_category \in {"bag", "surfboard", "skis"}
    THEN CARRY ELSE ABSTAIN

lf_carry_subject(x) ==
    IF x.object_category = "person"
       /\ x.subject_category \in {"chair", "bike", "snowboard", "motorcycle", "horse"}
    THEN CARRY ELSE ABSTAIN

\* lf_not_person with its test negated
lf_not_person_inverted(x) ==
    IF x.subject_category = "person" THEN Other ELSE ABSTAIN

lf_not_person(x) ==
    IF x.subject_category # "person" THEN Other ELSE ABSTAIN

lf_ydist(x) ==
    IF At(x.subject_bbox, XMAX) < At(x.object_bbox, XMAX) THEN Other ELSE ABSTAIN

\* the squared Euclidean norm of subject_bbox - object_bbox
SqDist(a, b) ==
    LET d(i) == a[i] - b[i]
    IN  d(1) * d(1) + d(2) * d(2) + d(3) * d(3) + d(4) * d(4)

\* norm(a - b) <= 1000: the norm is the square root of an integer, and the
\* correctly rounded root of n is <= 1000 exactly when n <= 1000^2
lf_dist(x) ==
    IF SqDist(x.subject_bbox, x.object_bbox) <= DistLimit * DistLimit
    THEN Other ELSE ABSTAIN

area(bbox) == (At(bbox, YMAX) - At(bbox, YMIN)) * (At(bbox, XMAX) - At(bbox, XMIN))

\* a / b <= 0.5 for integers a and b # 0 (true division, exact at these sizes)
LeHalf(a, b) == IF b > 0 THEN 2 * a <= b ELSE 2 * a >= b

lf_area(x) ==
    LET a == area(x.subject_bbox)
        b == area(x.object_bbox)
    IN  IF b = 0 THEN ZeroDivisionError
        ELSE IF LeHalf(a, b) THEN Other ELSE ABSTAIN

\* the list with lf_area moved to the front
lfs_area_first ==
    << "lf_area", "lf_ride_object", "lf_carry_object", "lf_carry_subject",
       "lf_not_person", "lf_ydist", "lf_dist" >>

lfs ==
    << "lf_ride_object", "lf_carry_object", "lf_carry_subject", "lf_not_person",
       "lf_ydist", "lf_dist", "lf_area" >>

\* calling a labeling function of the list
call_lf(name, x) ==
    CASE name = "lf_ride_object"   -> lf_ride_object(x)
      [] name = "lf_carry_object"  -> lf_carry_object(x)
      [] name = "lf_carry_subject" -> lf_carry_subject(x)
      [] name = "lf_not_person"    -> lf_not_person(x)
      [] name = "lf_ydist"         -> lf_ydist(x)
      [] name = "lf_dist"          -> lf_dist(x)
      [] name = "lf_area"          -> lf_area(x)

\* PandasLFApplier(lfs).apply(df): row r, column j holds lfs[j](df[r])
applier_apply(df) ==
    [r \in 1..Len(df) |-> [j \in 1..Len(lfs) |-> call_lf(lfs[j], df[r])]]

\* an exception of a labeling function propagates out of apply (fault_tolerant is off)
apply_raises(df) ==
    \E r \in 1..Len(df) : \E j \in 1..Len(lfs) :
        call_lf(lfs[j], df[r]) = ZeroDivisionError

\* df.label.values
label_values(df) == [r \in 1..Len(df) |-> df[r].label]

---------------------------------------------------------------------------
(* Rows and frames *)

Row(sc, sb, oc, ob, lab) ==
    [ subject_category |-> sc, subject_bbox |-> sb,
      object_category |-> oc, object_bbox |-> ob, label |-> lab ]

\* every category a labeling function names, and one it does not
Categories ==
    { "person", "bike", "snowboard", "motorcycle", "horse", "bus", "truck",
      "elephant", "bag", "surfboard", "skis", "chair", "dog" }

Coords == (0..MaxCoord) \cup {DistLimit, DistLimit + 1}

\* boxes [ymin, ymax, xmin, xmax] anchored at the origin, ymin <= ymax and xmin <= xmax
Boxes == { <<0, ymax, 0, xmax>> : ymax \in 0..MaxCoord, xmax \in Coords }

Labels == {RIDE, CARRY, Other}

\* two fixed frames for the sweep: a regular one, and one whose dev row has
\* an object box of area 0
SampleFrames ==
    { [ train |-> << Row("person", <<0, 2, 0, 2>>, "horse", <<0, 2, 0, 1>>, -1) >>,
        valid |-> << Row("chair", <<0, 1, 0, 1>>, "person", <<0, 2, 0, 2>>, Other) >>,
        test  |-> << Row("person", <<0, 1, 0, 1>>, "bag", <<0, 1, 0, 1001>>, CARRY) >> ],
      [ train |-> << Row("person", <<0, 2, 0, 2>>, "horse", <<0, 2, 0, 1>>, -1) >>,
        valid |-> << Row("dog", <<0, 1, 0, 1>>, "person", <<0, 0, 0, 2>>, Other) >>,
        test  |-> << Row("person", <<0, 1, 0, 1>>, "bag", <<0, 1, 0, 1001>>, CARRY) >> ] }

\* the sampled data set: the same data points in train, dev and test
SampledFrames ==
    { [ train |-> << Row(sc, sb, oc, ob, -1) >>,
        valid |-> << Row(sc, sb, oc, ob, lab) >>,
        test  |-> << Row(sc, sb, oc, ob, lab) >> ] :
      sc \in Categories, oc \in Categories, sb \in Boxes, ob \in Boxes, lab \in Labels }


---------------------------------------------------------------------------
(* The hyperparameter grid (thousandths for sig, thresh and lr) *)

Prefix(s, n) == SubSeq(s, 1, IF n < Len(s) THEN n ELSE Len(s))

\* [50, 100, 500, 1000, 5000][::-1]
epochs_list == Prefix(<< 5000, 1000, 500, 100, 50 >>, NEpochs)
sig_list == Prefix(<< 10, 50, 100, 500, 750, 900 >>, NParams)
thresh_list == Prefix(<< 100, 500, 1000, 1500 >>, NParams)
lr_list == Prefix(<< 10, 25, 50, 100 >>, NLr)

\* the list as the source writes it
deps_names_source == << "NM_NP", "CDGAM", "Varma_Gold", "Varma", "Empty" >>

\* the policies swept here: the last NPolicies of the source's list
deps_names ==
    SubSeq(deps_names_source,
           IF NPolicies < Len(deps_names_source)
           THEN Len(deps_names_source) - NPolicies + 1 ELSE 1,
           Len(deps_names_source))

info_names ==
    { "CDM", "NM", "NM_NP", "CDGAM", "Mod_Varma", "Varma", "Varma_Gold", "Empty" }

info ==
    [ name \in info_names |->
        [ deps_params |->
              IF name \in {"CDM", "NM", "NM_NP", "CDGAM"} THEN sig_list
              ELSE IF name \in {"Mod_Varma", "Varma", "Varma_Gold"} THEN thresh_list
              ELSE << -1 >>,
          snorkel_eps |-> epochs_list,
          snorkel_lr |-> lr_list ] ]

\* total = sum([len(info[d]['deps_params']) for d in deps_names]) * len(epochs_list) * len(lr_list)
RECURSIVE SumParams(_)
SumParams(names) ==
    IF names = <<>> THEN 0
    ELSE Len(info[Head(names)].deps_params) + SumParams(Tail(names))

total == SumParams(deps_names) * Len(epochs_list) * Len(lr_list)

\* {key: {'param': -1, 'n_eps': -1, 'lr': -1, 'f1': -1} for key in deps_names}
f1_based_store_init ==
    [ key \in { deps_names[i] : i \in 1..Len(deps_names) } |->
        [ param |-> -1, n_eps |-> -1, lr |-> -1, f1 |-> -1 ] ]

\* {key: {'f1': -1} for key in deps_names}
f1_based_test_store_init ==
    [ key \in { deps_names[i] : i \in 1..Len(deps_names) } |-> [ f1 |-> -1 ] ]

\* the update test with >= in place of >
improves_or_ties(score, stored) == score >= stored

\* the test of line 412, f1 > f1_based_store[deps_name]['f1']
improves(score, stored) == score > stored

\* the entry written at line 414
best_entry(p, e, l, score) ==
    [ param |-> p, n_eps |-> e, lr |-> l, f1 |-> score ]

---------------------------------------------------------------------------
(* Dependency estimation.  The estimators (CDM, CDGAM, NM, ModVarma_InCov, *)
(* get_varma_edges, get_varma_with_gold_edges) are deterministic functions *)
(* of their arguments; their code is not in the notebook, so the edge set  *)
(* one returns is represented by the call that computes it.                *)

NoArg == <<>>

EstimatorCall(fn, L, Y, k, arg, policy) ==
    [ fn |-> fn, L |-> L, Y |-> Y, k |-> k, arg |-> arg, policy |-> policy ]

NoCall == EstimatorCall("", NoArg, NoArg, 0, 0, "")

Estimated(call) == [ kind |-> "estimate", call |-> call ]

\* the literal [] of the 'Empty' branch
EmptyEdges == [ kind |-> "[]", call |-> NoCall ]

\* no branch assigned deps: return deps raises UnboundLocalError
Unbound == [ kind |-> "unbound", call |-> NoCall ]

CDM(L, Y, k, sig, policy) == Estimated(EstimatorCall("CDM", L, Y, k, sig, policy))
CDGAM(L, k, sig, policy) == Estimated(EstimatorCall("CDGAM", L, NoArg, k, sig, policy))
NM(L, Y, k, sig, policy) == Estimated(EstimatorCall("NM", L, Y, k, sig, policy))
ModVarma_InCov(L, Y, thresh) == Estimated(EstimatorCall("ModVarma_InCov", L, Y, 0, thresh, ""))
get_varma_edges(L, thresh) == Estimated(EstimatorCall("get_varma_edges", L, NoArg, 0, thresh, ""))
get_varma_with_gold_edges(L, Y, thresh) ==
    Estimated(EstimatorCall("get_varma_with_gold_edges", L, Y, 0, thresh, ""))

\* overall_deps_fn with 'Varma' reading the gold labels
overall_deps_fn_varma_gold(Ld, Yd, name, prm) ==
    CASE name = "CDM"        -> CDM(Ld, Yd, cardinality, prm, "new")
      [] name = "CDGAM"      -> CDGAM(Ld, cardinality, prm, "new")
      [] name = "NM"         -> NM(Ld, Yd, cardinality, prm, "old")
      [] name = "NM_NP"      -> NM(Ld, Yd, cardinality, prm, "new")
      [] name = "Mod_Varma"  -> ModVarma_InCov(Ld, Yd, prm)
      [] name = "Varma"      -> get_varma_with_gold_edges(Ld, Yd, prm)
      [] name = "Varma_Gold" -> get_varma_with_gold_edges(Ld, Yd, prm)
      [] name = "Empty"      -> EmptyEdges
      [] OTHER               -> Unbound

\* overall_deps_fn without its last branch
overall_deps_fn_no_empty(Ld, Yd, name, prm) ==
    CASE name = "CDM"        -> CDM(Ld, Yd, cardinality, prm, "new")
      [] name = "CDGAM"      -> CDGAM(Ld, cardinality, prm, "new")
      [] name = "NM"         -> NM(Ld, Yd, cardinality, prm, "old")
      [] name = "NM_NP"      -> NM(Ld, Yd, cardinality, prm, "new")
      [] name = "Mod_Varma"  -> ModVarma_InCov(Ld, Yd, prm)
      [] name = "Varma"      -> get_varma_edges(Ld, prm)
      [] name = "Varma_Gold" -> get_varma_with_gold_edges(Ld, Yd, prm)
      [] OTHER               -> Unbound

\* overall_deps_fn(deps_name, param) run where the globals L_dev, Y_dev hold Ld, Yd
overall_deps_fn_in(Ld, Yd, name, prm) ==
    CASE name = "CDM"        -> CDM(Ld, Yd, cardinality, prm, "new")
      [] name = "CDGAM"      -> CDGAM(Ld, cardinality, prm, "new")
      [] name = "NM"         -> NM(Ld, Yd, cardinality, prm, "old")
      [] name = "NM_NP"      -> NM(Ld, Yd, cardinality, prm, "new")
      [] name = "Mod_Varma"  -> ModVarma_InCov(Ld, Yd, prm)
      [] name = "Varma"      -> get_varma_edges(Ld, prm)
      [] name = "Varma_Gold" -> get_varma_with_gold_edges(Ld, Yd, prm)
      [] name = "Empty"      -> EmptyEdges
      [] OTHER               -> Unbound

overall_deps_fn(name, prm) == overall_deps_fn_in(L_dev, Y_dev, name, prm)

---------------------------------------------------------------------------
(* Informed_LabelModel: Unfitted -> Fitted.  Its code is not in the        *)
(* notebook; it is modelled from the specification's contract.  A call     *)
(* returns [model, raised, value]: the instance after the call, the error  *)
(* raised ("" if none) and the value returned.                             *)

NoParams == [ L |-> NoArg, edges |-> Unbound, cardinality |-> 0, seed |-> 0, lr |-> 0, n_epochs |-> 0 ]

\* the fitted parameters are a deterministic function of L, edges, seed,
\* learning rate and epoch count; log_freq does not affect them
FittedParams(L, edges, card, seed, rate, n_epochs) ==
    [ L |-> L, edges |-> edges, cardinality |-> card, seed |-> seed,
      lr |-> rate, n_epochs |-> n_epochs ]

NoModel ==
    [ id |-> 0, state |-> "None", edges |-> Unbound, cardinality |-> 0,
      params |-> NoParams, n_cols |-> 0, calls |-> <<>> ]

NumCols(L) == IF Len(L) = 0 THEN 0 ELSE Len(L[1])

Returned(m, value) == [ model |-> m, raised |-> "", value |-> value ]
Raised(m, error) == [ model |-> m, raised |-> error, value |-> -1 ]

Informed_LabelModel(edges, card, id) ==
    [ id |-> id, state |-> "Unfitted", edges |-> edges, cardinality |-> card,
      params |-> NoParams, n_cols |-> 0, calls |-> <<>> ]

\* fit requires learning_rate > 0 and n_epochs >= 1; outside of that it
\* may reject its input or go on.  A call that fails raises InvalidInput on
\* such input and FitDivergence otherwise.
fit(m, L, seed, rate, log_freq, n_epochs, fails) ==
    LET called == [m EXCEPT !.calls = Append(@, "fit")]
    IN  IF fails
        THEN Raised(called, IF rate <= 0 \/ n_epochs < 1
                            THEN "InvalidInput" ELSE "FitDivergence")
        ELSE Returned([called EXCEPT
                          !.state = "Fitted",
                          !.n_cols = NumCols(L),
                          !.params = FittedParams(L, m.edges, m.cardinality,
                                                  seed, rate, n_epochs)], 0)

predict_proba(m, L) ==
    LET called == [m EXCEPT !.calls = Append(@, "predict_proba")]
    IN  IF m.state # "Fitted" THEN Raised(called, "ModelNotFittedError")
        ELSE IF NumCols(L) # m.n_cols THEN Raised(called, "ShapeMismatch")
        ELSE Returned(called, 0)

\* score(L, Y)['accuracy']: acc of the Len(Y) rows are predicted right
score(m, L, Y, acc) ==
    LET called == [m EXCEPT !.calls = Append(@, "score")]
    IN  IF m.state # "Fitted" THEN Raised(called, "ModelNotFittedError")
        ELSE IF NumCols(L) # m.n_cols \/ Len(L) # Len(Y) THEN Raised(called, "ShapeMismatch")
        ELSE Returned(called, acc)

\* the four calls in the order predict_proba, fit, score
train_and_score_predict_first(edges, rate, epochs, L_eval, Y_eval, fails, acc) ==
    LET m0 == Informed_LabelModel(edges, cardinality, n_models + 1)
        r1 == predict_proba(m0, L_eval)
        r2 == IF r1.raised = ""
              THEN fit(r1.model, L_train, 12345, rate, epochs, epochs, fails)
              ELSE r1
        r3 == IF r2.raised = "" THEN score(r2.model, L_eval, Y_eval, acc) ELSE r2
    IN  r3

\* one fresh instance: construct, fit on L_train, predict_proba and score on
\* the evaluation matrix (lines 405-410 and 437-442).  log_freq = n_eps/10
\* is written in tenths.
train_and_score(edges, rate, epochs, L_eval, Y_eval, fails, acc) ==
    LET m0 == Informed_LabelModel(edges, cardinality, n_models + 1)
        r1 == fit(m0, L_train, 12345, rate, epochs, epochs, fails)
        r2 == IF r1.raised = "" THEN predict_proba(r1.model, L_eval) ELSE r1
        r3 == IF r2.raised = "" THEN score(r2.model, L_eval, Y_eval, acc) ELSE r2
    IN  r3

NumFitCalls(m) == Cardinality({ i \in 1..Len(m.calls) : m.calls[i] = "fit" })


---------------------------------------------------------------------------
(* Initial states *)

KeysOf(names) == { names[i] : i \in 1..Len(names) }

InitWith(frames) ==
    /\ pc = "labeling" /\ err = ""
    /\ df_train = frames.train /\ df_valid = frames.valid /\ df_test = frames.test
    /\ L_train = NoArg /\ L_valid = NoArg /\ L_test = NoArg
    /\ Y_valid = NoArg /\ Y_test = NoArg /\ L_dev = NoArg /\ Y_dev = NoArg
    /\ it = [dep |-> 0, param |-> 0, eps |-> 0, lr |-> 0]
    /\ deps_name = "" /\ param = 0 /\ n_eps = 0 /\ lr = 0
    /\ deps = Unbound /\ label_model = NoModel /\ f1 = -1
    /\ f1_based_store = <<>> /\ ct = 0
    /\ f1_based_test_store = <<>> /\ f1_test = -1
    /\ n_models = 0 /\ n_fits = 0 /\ n_estimates = 0
    /\ best_model = <<>>

Init == \E frames \in SampleFrames : InitWith(frames)

InitLF == \E frames \in SampledFrames : InitWith(frames)

---------------------------------------------------------------------------
(* The labeling cells *)

\* L_train = applier.apply(df_train); L_valid = applier.apply(df_valid)
LabelingCell ==
    /\ pc = "labeling"
    /\ IF apply_raises(df_train)
       THEN /\ pc' = "error" /\ err' = "ZeroDivisionError"
            /\ UNCHANGED << L_train, L_valid >>
       ELSE IF apply_raises(df_valid)
       THEN /\ pc' = "error" /\ err' = "ZeroDivisionError"
            /\ L_train' = applier_apply(df_train)
            /\ UNCHANGED L_valid
       ELSE /\ pc' = "gold" /\ err' = err
            /\ L_train' = applier_apply(df_train)
            /\ L_valid' = applier_apply(df_valid)
    /\ UNCHANGED << df_train, df_valid, df_test, L_test, Y_valid, Y_test, L_dev,
                    Y_dev, it, deps_name, param, n_eps, lr, deps, label_model,
                    f1, f1_based_store, ct, f1_based_test_store, f1_test,
                    n_models, n_fits, n_estimates, best_model >>

\* Y_valid = df_valid.label.values
GoldCell ==
    /\ pc = "gold"
    /\ Y_valid' = label_values(df_valid)
    /\ pc' = "imports"
    /\ UNCHANGED << err, df_train, df_valid, df_test, L_train, L_valid, L_test,
                    Y_test, L_dev, Y_dev, it, deps_name, param, n_eps, lr, deps,
                    label_model, f1, f1_based_store, ct, f1_based_test_store,
                    f1_test, n_models, n_fits, n_estimates, best_model >>

\* L_dev = L_valid; Y_dev = Y_valid
ImportsCell ==
    /\ pc = "imports"
    /\ L_dev' = L_valid
    /\ Y_dev' = Y_valid
    /\ pc' = "apply_test"
    /\ UNCHANGED << err, df_train, df_valid, df_test, L_train, L_valid, L_test,
                    Y_valid, Y_test, it, deps_name, param, n_eps, lr, deps,
                    label_model, f1, f1_based_store, ct, f1_based_test_store,
                    f1_test, n_models, n_fits, n_estimates, best_model >>

\* L_test = applier.apply(df_test); Y_test = df_test.label.values
TestApplyCell ==
    /\ pc = "apply_test"
    /\ IF apply_raises(df_test)
       THEN /\ pc' = "error" /\ err' = "ZeroDivisionError"
            /\ UNCHANGED << L_test, Y_test >>
       ELSE /\ pc' = "sweep_init" /\ err' = err
            /\ L_test' = applier_apply(df_test)
            /\ Y_test' = label_values(df_test)
    /\ UNCHANGED << df_train, df_valid, df_test, L_train, L_valid, Y_valid, L_dev,
                    Y_dev, it, deps_name, param, n_eps, lr, deps, label_model,
                    f1, f1_based_store, ct, f1_based_test_store, f1_test,
                    n_models, n_fits, n_estimates, best_model >>

---------------------------------------------------------------------------
(* The validation sweep *)

\* the head of the sweep cell: the lists, f1_based_store, ct = 0, total
SweepInit ==
    /\ pc = "sweep_init"
    /\ f1_based_store' = f1_based_store_init
    /\ best_model' = [ key \in KeysOf(deps_names) |-> NoModel ]
    /\ ct' = 0
    /\ it' = [dep |-> 1, param |-> 1, eps |-> 1, lr |-> 1]
    /\ pc' = "sweep_param"
    /\ UNCHANGED << err, df_train, df_valid, df_test, L_train, L_valid, L_test,
                    Y_valid, Y_test, L_dev, Y_dev, deps_name, param, n_eps, lr,
                    deps, label_model, f1, f1_based_test_store, f1_test,
                    n_models, n_fits, n_estimates >>

\* for deps_name in deps_names: for param in deps_params: deps = overall_deps_fn(deps_name, param)
SweepEstimate ==
    /\ pc = "sweep_param"
    /\ LET name == deps_names[it.dep]
           prm  == info[name].deps_params[it.param]
           d    == overall_deps_fn(name, prm)
       IN  /\ deps_name' = name
           /\ param' = prm
           /\ n_estimates' = n_estimates + 1
           /\ IF d.kind = "unbound"
              THEN /\ pc' = "test_init" /\ err' = "UnboundLocalError"
                   /\ UNCHANGED << deps, it >>
              ELSE /\ pc' = "sweep_fit" /\ err' = err
                   /\ deps' = d
                   /\ it' = [it EXCEPT !.eps = 1, !.lr = 1]
    /\ UNCHANGED << df_train, df_valid, df_test, L_train, L_valid, L_test,
                    Y_valid, Y_test, L_dev, Y_dev, n_eps, lr, label_model, f1,
                    f1_based_store, ct, f1_based_test_store, f1_test, n_models,
                    n_fits, best_model >>

\* the loops with the epochs loop left after its first value
NextPos_first_epoch_only(pos, name) ==
    IF pos.lr < Len(info[name].snorkel_lr)
    THEN [ it |-> [pos EXCEPT !.lr = @ + 1], pc |-> "sweep_fit" ]
    ELSE IF pos.param < Len(info[name].deps_params)
    THEN [ it |-> [pos EXCEPT !.param = @ + 1], pc |-> "sweep_param" ]
    ELSE IF pos.dep < Len(deps_names)
    THEN [ it |-> [pos EXCEPT !.dep = @ + 1, !.param = 1], pc |-> "sweep_param" ]
    ELSE [ it |-> pos, pc |-> "test_init" ]

\* where the four nested loops go after the body ran at position pos
NextPos(pos, name) ==
    IF pos.lr < Len(info[name].snorkel_lr)
    THEN [ it |-> [pos EXCEPT !.lr = @ + 1], pc |-> "sweep_fit" ]
    ELSE IF pos.eps < Len(info[name].snorkel_eps)
    THEN [ it |-> [pos EXCEPT !.eps = @ + 1, !.lr = 1], pc |-> "sweep_fit" ]
    ELSE IF pos.param < Len(info[name].deps_params)
    THEN [ it |-> [pos EXCEPT !.param = @ + 1], pc |-> "sweep_param" ]
    ELSE IF pos.dep < Len(deps_names)
    THEN [ it |-> [pos EXCEPT !.dep = @ + 1, !.param = 1], pc |-> "sweep_param" ]
    ELSE [ it |-> pos, pc |-> "test_init" ]

\* the body of the two inner loops, lines 402-417: one (n_eps, lr)
\* combination.  An exception leaves the loops and ends the cell (%%time,
\* line 347); the next cell runs.
SweepIteration ==
    /\ pc = "sweep_fit"
    /\ \E fails \in BOOLEAN, acc \in 0..Len(Y_dev) :
         LET e == info[deps_name].snorkel_eps[it.eps]
             l == info[deps_name].snorkel_lr[it.lr]
             r == train_and_score(deps, l, e, L_dev, Y_dev, fails, acc)
             nxt == NextPos(it, deps_name)
         IN  /\ n_eps' = e
             /\ lr' = l
             /\ label_model' = r.model
             /\ n_models' = n_models + 1
             /\ n_fits' = n_fits + NumFitCalls(r.model)
             /\ IF r.raised # ""
                THEN /\ pc' = "test_init" /\ err' = r.raised
                     /\ UNCHANGED << f1, f1_based_store, best_model, ct, it >>
                ELSE /\ f1' = r.value
                     /\ IF improves(r.value, f1_based_store[deps_name].f1)
                        THEN /\ f1_based_store' =
                                  [f1_based_store EXCEPT
                                     ![deps_name] = best_entry(param, e, l, r.value)]
                             /\ best_model' = [best_model EXCEPT ![deps_name] = r.model]
                        ELSE UNCHANGED << f1_based_store, best_model >>
                     /\ ct' = ct + 1
                     /\ it' = nxt.it
                     /\ pc' = nxt.pc
                     /\ err' = err
    /\ UNCHANGED << df_train, df_valid, df_test, L_train, L_valid, L_test,
                    Y_valid, Y_test, L_dev, Y_dev, deps_name, param, deps,
                    f1_based_test_store, f1_test, n_estimates >>

---------------------------------------------------------------------------
(* The test phase *)

\* f1_based_test_store = {key: {'f1': -1} for key in deps_names}
TestInit ==
    /\ pc = "test_init"
    /\ f1_based_test_store' = f1_based_test_store_init
    /\ it' = [dep |-> 1, param |-> 0, eps |-> 0, lr |-> 0]
    /\ pc' = "test"
    /\ UNCHANGED << err, df_train, df_valid, df_test, L_train, L_valid, L_test,
                    Y_valid, Y_test, L_dev, Y_dev, deps_name, param, n_eps, lr,
                    deps, label_model, f1, f1_based_store, ct, f1_test,
                    n_models, n_fits, n_estimates, best_model >>

\* the body of the test loop, lines 430-444: one policy.  A fit whose inputs
\* are those of a fit that is known to have returned returns again (fit is
\* deterministic).  After a sweep that an exception ended, a policy that was
\* never scored still has the placeholders -1 in f1_based_store; an
\* estimator may reject the threshold -1 (InvalidInput).  An exception
\* leaves the loop and ends the cell (%%time, line 426).
TestIteration ==
    /\ pc = "test"
    /\ \E fails \in BOOLEAN, rejects \in BOOLEAN, acc \in 0..Len(Y_test) :
         LET name == deps_names[it.dep]
             p == f1_based_store[name].param
             e == f1_based_store[name].n_eps
             l == f1_based_store[name].lr
             d == overall_deps_fn(name, p)
             r == train_and_score(d, l, e, L_test, Y_test, fails, acc)
         IN  /\ fails => FittedParams(L_train, d, cardinality, 12345, l, e) # best_model[name].params
             /\ rejects => (p = -1 /\ name # "Empty" /\ ~ fails)
             /\ deps_name' = name
             /\ param' = p
             /\ n_eps' = e
             /\ lr' = l
             /\ IF d.kind = "unbound" \/ rejects
                THEN /\ pc' = "done"
                     /\ err' = IF rejects THEN "InvalidInput" ELSE "UnboundLocalError"
                     /\ UNCHANGED << deps, label_model, n_models, n_fits, f1_test,
                                     f1_based_test_store, it >>
                ELSE /\ deps' = d
                     /\ label_model' = r.model
                     /\ n_models' = n_models + 1
                     /\ n_fits' = n_fits + NumFitCalls(r.model)
                     /\ IF r.raised # ""
                        THEN /\ pc' = "done" /\ err' = r.raised
                             /\ UNCHANGED << f1_test, f1_based_test_store, it >>
                        ELSE /\ f1_test' = r.value
                             /\ f1_based_test_store' =
                                  [f1_based_test_store EXCEPT ![name] = [f1 |-> r.value]]
                             /\ err' = err
                             /\ IF it.dep < Len(deps_names)
                                THEN it' = [it EXCEPT !.dep = @ + 1] /\ pc' = "test"
                                ELSE it' = it /\ pc' = "done"
    /\ UNCHANGED << df_train, df_valid, df_test, L_train, L_valid, L_test,
                    Y_valid, Y_test, L_dev, Y_dev, f1, f1_based_store, ct,
                    n_estimates, best_model >>

---------------------------------------------------------------------------
(* Specifications *)

Next ==
    \/ LabelingCell
    \/ GoldCell
    \/ ImportsCell
    \/ TestApplyCell
    \/ SweepInit
    \/ SweepEstimate
    \/ SweepIteration
    \/ TestInit
    \/ TestIteration

\* the whole notebook on the fixed frames
Spec == Init /\ [][Next]_vars

NextLF ==
    \/ LabelingCell
    \/ GoldCell
    \/ ImportsCell
    \/ TestApplyCell

\* the labeling cells alone, on every row of the bounded row domain
SpecLF == InitLF /\ [][NextLF]_vars


---------------------------------------------------------------------------
(* Claims *)

\* the sweep is running / the notebook got past it
InSweep == pc \in {"sweep_param", "sweep_fit"}
PastSweep == pc \in {"test_init", "test", "done"}

\* C1: every Informed_LabelModel instance is fit before it is queried: the
\* calls on the current instance are fit, then predict_proba, then score
\* (fit alone when it raised), ModelNotFittedError is never raised, each
\* instance is fit exactly once, and every combination the sweep runs and
\* every policy the test phase runs gets an instance of its own.
C1_FitBeforeQuery ==
    /\ err # "ModelNotFittedError"
    /\ n_fits = n_models
    /\ label_model.state # "None" =>
         /\ label_model.id = n_models
         /\ NumFitCalls(label_model) = 1
         /\ \A i \in 1..Len(label_model.calls) :
              label_model.calls[i] \in {"predict_proba", "score"} =>
                /\ label_model.state = "Fitted"
                /\ \E j \in 1..(i - 1) : label_model.calls[j] = "fit"
         /\ label_model.calls = << "fit" >> => err \in {"FitDivergence", "InvalidInput"}
    /\ InSweep => n_models = ct
    /\ pc = "test_init" => n_models = ct + (IF err = "" THEN 0 ELSE 1)
    /\ pc = "test" => n_models = ct + (IF err = "" THEN 0 ELSE 1) + it.dep - 1
    /\ pc = "done" =>
         /\ n_models <= ct + 1 + Len(deps_names)
         /\ err = "" => n_models = total + Len(deps_names)

\* a test-phase instance that was fit, then asked for probabilities and a score
C1_Witness ==
    /\ pc = "done"
    /\ label_model.state = "Fitted"
    /\ label_model.calls = << "fit", "predict_proba", "score" >>
    /\ n_models = total + Len(deps_names)

\* C2: a fit that fails with FitDivergence does not keep the sweep from
\* visiting every combination: when the sweep cell is over, all total
\* combinations have been run.
C2_SweepSurvivesDivergence == PastSweep => ct = total

\* every parameter value of the grid, and the placeholder of 'Empty'
C3_AllParams ==
    UNION { KeysOf(info[name].deps_params) : name \in info_names }

\* every gold vector over the dev rows
GoldVectors == [ 1..Len(df_valid) -> Labels ]

\* C3: 'Empty' yields the empty edge list whatever the label matrix, the gold
\* vector and the parameter are; every name of the source's deps_names has a
\* branch in overall_deps_fn, so deps is bound when it is returned.
C3_EmptyPolicyAndEveryNameHandled ==
    /\ \A L \in {L_train, L_valid, L_test, NoArg} : \A Y \in GoldVectors \cup {NoArg} :
         \A p \in C3_AllParams : overall_deps_fn_in(L, Y, "Empty", p) = EmptyEdges
    /\ \A name \in KeysOf(deps_names_source) : \A p \in KeysOf(info[name].deps_params) :
         overall_deps_fn(name, p).kind # "unbound"
    /\ KeysOf(deps_names) \subseteq KeysOf(deps_names_source)
    /\ err # "UnboundLocalError"
    /\ deps_name = "Empty" => (param = -1 /\ deps = EmptyEdges)

\* the sweep fitted a model under 'Empty' on the empty edge list
C3_Witness ==
    /\ pc = "sweep_fit"
    /\ deps_name = "Empty" /\ param = -1
    /\ deps = EmptyEdges
    /\ label_model.state = "Fitted" /\ label_model.edges = EmptyEdges


\* the policies whose estimator is not given Y_dev
C4_GoldFree == {"Varma", "CDGAM", "Empty"}

\* a step that created, fitted and scored an instance
C4_Fitted == n_models' = n_models + 1 /\ label_model'.state = "Fitted"

\* the fitted parameters of policy name with parameter p, learning rate l
\* and e epochs, had the gold vector of the dev set been Y
C4_ParamsUnder(Y, name, p, l, e) ==
    FittedParams(L_train, overall_deps_fn_in(L_dev, Y, name, p),
                 cardinality, 12345, l, e)

\* every policy of the source's list, swept here or not, over the grid and
\* the placeholders
C4_EveryPolicy ==
    \A name \in KeysOf(deps_names_source) :
      \A p \in KeysOf(info[name].deps_params) \cup {-1} :
        \A l \in KeysOf(lr_list) \cup {-1} : \A e \in KeysOf(epochs_list) \cup {-1} :
           LET edges == overall_deps_fn_in(L_dev, Y_dev, name, p)
           IN  /\ C4_ParamsUnder(Y_dev, name, p, l, e).L = L_train
               /\ IF name \in C4_GoldFree
                  THEN /\ edges.call.Y = NoArg
                       /\ \A Y \in GoldVectors :
                            /\ overall_deps_fn_in(L_dev, Y, name, p) = edges
                            /\ C4_ParamsUnder(Y, name, p, l, e) =
                                 C4_ParamsUnder(Y_dev, name, p, l, e)
                  ELSE \* Y_dev is an argument of the estimation, and of
                       \* nothing else that fit is given
                       /\ edges.call.Y = Y_dev
                       /\ \A Y \in GoldVectors :
                            [C4_ParamsUnder(Y, name, p, l, e) EXCEPT !.edges = edges] =
                               C4_ParamsUnder(Y_dev, name, p, l, e)

C4_Step ==
    /\ \A r \in 1..Len(df_train) : df_train[r].label = -1
    \* the matrices and the gold vector are fixed from the sweep cell on
    /\ pc = "sweep_init" => C4_EveryPolicy
    /\ (pc = "sweep_init" \/ InSweep \/ PastSweep) =>
         (L_train' = L_train /\ L_dev' = L_dev /\ Y_dev' = Y_dev)
    /\ C4_Fitted =>
         \* what fit was given: L_train, the seed and the hyperparameters; the
         \* edges came in through the constructor
         /\ label_model'.params.L = L_train
         /\ label_model'.n_cols = NumCols(L_train)
         /\ deps' = overall_deps_fn(deps_name', param')
         /\ label_model'.edges = deps'
         /\ label_model'.params =
              C4_ParamsUnder(Y_dev, deps_name', param', lr', n_eps')
         /\ IF deps_name' \in C4_GoldFree
            THEN \A Y \in GoldVectors :
                   /\ overall_deps_fn_in(L_dev, Y, deps_name', param') = deps'
                   /\ C4_ParamsUnder(Y, deps_name', param', lr', n_eps') =
                        label_model'.params
            ELSE /\ deps'.call.Y = Y_dev
                 /\ \A Y \in GoldVectors :
                      [C4_ParamsUnder(Y, deps_name', param', lr', n_eps')
                          EXCEPT !.edges = deps'] = label_model'.params

\* C4: gold labels never reach fit.  For every policy fit is given L_train,
\* whose frame is unlabeled, the seed and the hyperparameters; Y_dev goes to
\* the dependency estimation (and to score) only.  For the policies that do
\* not take Y (Varma, CDGAM, Empty) a run with any other gold vector Y_dev
\* computes the same edges and fits the same model in every combination;
\* for the policies that take Y, Y_dev is an argument of the estimator and
\* the fit differs from that of another gold vector in its edges at most.
C4_GoldLabelsNeverReachFit == [][C4_Step]_vars

\* a model was fitted under 'Varma', whose estimator got no gold vector,
\* while another gold vector was possible
C4_Witness ==
    /\ deps_name = "Varma"
    /\ label_model.state = "Fitted" /\ label_model.edges = deps
    /\ deps.call.fn = "get_varma_edges" /\ deps.call.Y = NoArg
    /\ label_model.params.L = L_train
    /\ \E Y \in GoldVectors : Y # Y_dev

C5_Votes == {ABSTAIN} \cup (0..(cardinality - 1))

\* matrix M was built from frame df: one row per data point, seven columns,
\* column j the vote of the j-th function of lfs as the source lists them
C5_BuiltFrom(M, df) ==
    /\ Len(M) = Len(df)
    /\ \A r \in 1..Len(M) :
         /\ Len(M[r]) = 7
         /\ \A j \in 1..Len(M[r]) : M[r][j] \in C5_Votes
         /\ M[r] = << lf_ride_object(df[r]), lf_carry_object(df[r]),
                      lf_carry_subject(df[r]), lf_not_person(df[r]),
                      lf_ydist(df[r]), lf_dist(df[r]), lf_area(df[r]) >>

\* C5: every label matrix the harness builds has exactly 7 columns, one per
\* function of lfs in list order, with every entry ABSTAIN or a class index
\* below the cardinality 3; so the three matrices agree in their column
\* count, which is what fit, predict_proba and score are given.
C5_LabelMatrixShape ==
    /\ L_train # NoArg => C5_BuiltFrom(L_train, df_train)
    /\ L_valid # NoArg => C5_BuiltFrom(L_valid, df_valid)
    /\ L_test # NoArg => C5_BuiltFrom(L_test, df_test)
    /\ L_dev # NoArg => L_dev = L_valid
    /\ pc = "sweep_init" =>
         /\ L_train # NoArg /\ L_dev # NoArg /\ L_test # NoArg
         /\ NumCols(L_dev) = NumCols(L_train)
         /\ NumCols(L_test) = NumCols(L_train)

\* all three matrices are built and hold votes of several functions
C5_Witness ==
    /\ pc = "sweep_init"
    /\ L_train[1][1] = RIDE /\ L_train[1][5] = Other /\ L_train[1][7] = ABSTAIN
    /\ L_test[1][6] = Other
    /\ NumCols(L_dev) = 7

\* what the claim gives for column 7: Other exactly when
\* area(subject_bbox) / area(object_bbox) <= 0.5
C6_AreaVote(x) ==
    IF 2 * area(x.subject_bbox) <= area(x.object_bbox) THEN Other ELSE ABSTAIN

\* C6: each labeling function is total: applying the seven functions to the
\* rows of a frame never raises, every vote is ABSTAIN or the function's
\* class, and lf_area votes Other exactly when the area ratio is <= 0.5.
C6_LabelingFunctionsTotal ==
    /\ err # "ZeroDivisionError"
    /\ L_train # NoArg =>
         \A r \in 1..Len(L_train) :
            /\ \A j \in 1..Len(lfs) : L_train[r][j] \in {ABSTAIN, RIDE, CARRY, Other}
            /\ L_train[r][7] = C6_AreaVote(df_train[r])

C7_Max(a, b) == IF a > b THEN a ELSE b

\* a step of the sweep that scored a combination
C7_Scored == pc = "sweep_fit" /\ ct' = ct + 1

C7_Step ==
    /\ C7_Scored =>
         LET old == f1_based_store[deps_name]
             new == f1_based_store'[deps_name]
         IN  /\ new.f1 = C7_Max(old.f1, f1')
             /\ f1' > old.f1 =>
                  new = [param |-> param, n_eps |-> n_eps', lr |-> lr', f1 |-> f1']
             /\ f1' <= old.f1 => new = old
             /\ \A q \in DOMAIN f1_based_store \ {deps_name} :
                  f1_based_store'[q] = f1_based_store[q]
    /\ pc = "sweep_init" =>
         \A q \in DOMAIN f1_based_store' :
            f1_based_store'[q] = [param |-> -1, n_eps |-> -1, lr |-> -1, f1 |-> -1]
    /\ (~ C7_Scored /\ pc # "sweep_init") => f1_based_store' = f1_based_store

\* C7: best-so-far selection.  The store starts at -1 for every policy; a
\* scored combination of policy p leaves f1_based_store[p]['f1'] at the
\* maximum of its old value and the new score, replaces the stored
\* (param, n_eps, lr) only when the new score is strictly greater (so the
\* first combination that reached the maximum stays), and changes no other
\* policy's entry; nothing else writes the store.
C7_BestSoFar == [][C7_Step]_vars

\* a later combination tied with the stored best and did not replace it
C7_Witness ==
    /\ pc = "sweep_fit" /\ (it.eps > 1 \/ it.lr > 1)
    /\ f1 >= 0 /\ f1 = f1_based_store[deps_name].f1
    /\ << f1_based_store[deps_name].param, f1_based_store[deps_name].n_eps,
          f1_based_store[deps_name].lr >> # << param, n_eps, lr >>


\* a step of the test loop that fitted and scored its policy
C8_Tested == pc = "test" /\ n_models' = n_models + 1

C8_Step ==
    /\ pc \in {"test_init", "test"} =>
         /\ f1_based_store' = f1_based_store
         /\ ct' = ct /\ f1' = f1 /\ best_model' = best_model
    /\ (pc # "test" /\ pc # "test_init") => f1_based_test_store' = f1_based_test_store
    /\ C8_Tested =>
         LET name == deps_names[it.dep]
             entry == f1_based_store[name]
             best == best_model[name]
         IN  /\ deps_name' = name
             /\ entry.f1 >= 0 /\ best.state = "Fitted"
             /\ << param', n_eps', lr' >> = << entry.param, entry.n_eps, entry.lr >>
             /\ best.params =
                  FittedParams(L_train, best.edges, cardinality, 12345, entry.lr, entry.n_eps)
             /\ deps' = best.edges
             /\ label_model'.id # best.id
             /\ label_model'.edges = best.edges
             /\ label_model'.state = "Fitted"
             /\ label_model'.params = best.params
             /\ f1_based_test_store'[name] = [f1 |-> f1_test']
             /\ \A q \in DOMAIN f1_based_test_store \ {name} :
                  f1_based_test_store'[q] = f1_based_test_store[q]

\* C8: for every policy the test phase fits a fresh instance with the
\* (param, n_eps, lr) stored in f1_based_store, the seed 12345, L_train and
\* the edges overall_deps_fn computes again; these are the inputs of the
\* validation fit that set the stored score, so the fitted parameters are
\* those of that validation model.  The test phase does not write
\* f1_based_store, and only it writes f1_based_test_store.
C8_TestPhaseRefitsTheBest == [][C8_Step]_vars

\* steps left in the sweep: two per combination still to run
C9_Measure ==
    IF InSweep THEN 2 * (total - ct) + (IF pc = "sweep_param" THEN 1 ELSE 0) ELSE 0

\* (policy, param) pairs of the policies before the dep-th
C9_PairsBefore(dep) == SumParams(SubSeq(deps_names, 1, dep - 1))

\* the loop position is a combination of the grid, so the loop body has a
\* step to take
C9_InGrid ==
    /\ it.dep \in 1..Len(deps_names)
    /\ it.param \in 1..Len(info[deps_names[it.dep]].deps_params)
    /\ pc = "sweep_fit" =>
         /\ deps_name = deps_names[it.dep]
         /\ param = info[deps_name].deps_params[it.param]
         /\ it.eps \in 1..Len(epochs_list)
         /\ it.lr \in 1..Len(lr_list)

\* a step of the sweep whose calls all returned
C9_Returned == pc = "sweep_fit" /\ err' = ""

\* after the sweep ct and the estimate count stay as the sweep left them
C9_Step ==
    IF PastSweep
    THEN ct' = ct /\ n_estimates' = n_estimates
    ELSE
    /\ 0 <= ct /\ ct <= total /\ 0 <= ct' /\ ct' <= total
    /\ InSweep =>
         /\ C9_InGrid
         /\ C9_Measure' < C9_Measure /\ C9_Measure' >= 0
    /\ C9_Returned =>
         /\ ct' = ct + 1 /\ n_fits' = n_fits + 1
         /\ deps' = deps /\ label_model'.edges = deps
    /\ (pc = "sweep_fit" /\ ~ C9_Returned) => (ct' = ct /\ pc' = "test_init")
    /\ pc = "sweep_param" =>
         /\ ct' = ct /\ n_estimates' = n_estimates + 1
         /\ err' = "" => deps' = overall_deps_fn(deps_name', param')
    /\ pc # "sweep_param" => n_estimates' = n_estimates
    /\ pc' = "sweep_fit" =>
         /\ n_estimates' = C9_PairsBefore(it'.dep) + it'.param
         /\ ct' = (n_estimates' - 1) * Len(epochs_list) * Len(lr_list)
                    + (it'.eps - 1) * Len(lr_list) + (it'.lr - 1)
    /\ (pc' = "test_init" /\ err' = "") =>
         /\ ct' = total /\ n_fits' = total
         /\ n_estimates' = SumParams(deps_names)

\* C9: while every call returns, the sweep is always at a combination of the
\* grid and each step brings it closer to its end; ct goes up by one per combination, stays
\* within 0..total and is total when the sweep ends, after exactly total
\* fits; the edges are estimated once per (policy, param) pair and every
\* (n_eps, lr) combination of the pair is fitted on those edges.
C9_SweepTerminatesAfterTotalFits == [][C9_Step]_vars

\* the sweep has just ended
C9_Witness ==
    /\ pc = "test_init"
    /\ err = "" /\ ct = total /\ n_fits = total /\ total > 1
    /\ n_estimates = SumParams(deps_names)

\* C10: on every row at most one of lf_ride_object, lf_carry_object and
\* lf_carry_subject votes; lf_not_person abstains where lf_ride_object or
\* lf_carry_object votes; and where lf_carry_subject votes CARRY,
\* lf_not_person votes Other, so the two disagree there.
C10_VoteOverlap ==
    \A M \in {L_train, L_valid, L_test} : \A r \in 1..Len(M) :
        LET v == M[r]
        IN  /\ Cardinality({ j \in 1..3 : v[j] # ABSTAIN }) <= 1
            /\ (v[1] # ABSTAIN \/ v[2] # ABSTAIN) => v[4] = ABSTAIN
            /\ v[3] # ABSTAIN => (v[3] = CARRY /\ v[4] = Other /\ v[3] # v[4])

\* a labelled row on which lf_carry_subject and lf_not_person both vote
C10_Witness ==
    /\ L_train # NoArg
    /\ L_train[1][3] = CARRY /\ L_train[1][4] = Other
    /\ df_train[1].subject_category = "horse"

=============================================================================
